---- MODULE Spec2Model ----
(***************************************************************************)
(* Model of the RBI chatbot backend: the /ask request handler              *)
(* (chatbot_backend.py), its intent classifier, follow-up detection,       *)
(* conversation memory, and the hybrid retrieval it calls                  *)
(* (hybrid_retrieval.py, kg_retrieval.py).                                 *)
(*                                                                         *)
(* Texts (questions, answers, model responses) are sequences of            *)
(* one-character strings, so that lower(), strip(), split(), startswith()  *)
(* and the substring test are computed on them as Python computes them.    *)
(* Intents, topics and conversation identifiers are atoms (TLA+ strings).  *)
(***************************************************************************)
EXTENDS Integers, Sequences, FiniteSets, TLC

\* ------------------------------------------------------------------ bounds

\* Most /ask requests submitted in one behaviour.
MaxAsks == 3
\* Most words of a question drawn for the pure-function specifications.
MaxWords == 2
\* Most node identifiers the topic lookup returns, and most results of the
\* vector search, drawn for hybrid_retrieve applied on its own.
MaxNodes == 2
MaxHits == 2
\* Most chunks of the corpus drawn for rag_search applied on its own.
MaxCorpus == 6
\* Most facts handed to build_prompt applied on its own.
MaxFacts == 3

\* ------------------------------------------------------------- Python str

\* Python's None where an atom (intent, topic, conversation id) is expected.
NoneAtom == "<None>"
\* Python's None where a text is expected (no text has a 6-character element).
NoneText == <<"<None>">>

WS == {" ", "\t", "\n"}

UpperCase == <<"A","B","C","D","E","F","G","H","I","J","K","L","M",
               "N","O","P","Q","R","S","T","U","V","W","X","Y","Z">>
LowerCase == <<"a","b","c","d","e","f","g","h","i","j","k","l","m",
               "n","o","p","q","r","s","t","u","v","w","x","y","z">>

LowerChar(c) ==
    IF \E i \in 1..26 : UpperCase[i] = c
    THEN LowerCase[CHOOSE i \in 1..26 : UpperCase[i] = c]
    ELSE c

\* str.lower()
Lower(s) == [i \in 1..Len(s) |-> LowerChar(s[i])]

\* str.lstrip() / str.rstrip() / str.strip() on whitespace
RECURSIVE LStrip(_)
LStrip(s) == IF s # <<>> /\ Head(s) \in WS THEN LStrip(Tail(s)) ELSE s

RECURSIVE RStrip(_)
RStrip(s) ==
    IF s # <<>> /\ s[Len(s)] \in WS THEN RStrip(SubSeq(s, 1, Len(s) - 1)) ELSE s

Strip(s) == RStrip(LStrip(s))

\* p in s (substring test)
Contains(s, p) ==
    \E i \in 0..(Len(s) - Len(p)) : SubSeq(s, i + 1, i + Len(p)) = p

\* s.startswith(p)
StartsWith(s, p) == Len(p) <= Len(s) /\ SubSeq(s, 1, Len(p)) = p

\* len(s.split()): the number of maximal runs of non-whitespace characters
SplitLen(s) ==
    Cardinality({i \in 1..Len(s) :
                    s[i] \notin WS /\ (i = 1 \/ s[i - 1] \in WS)})

\* any(p in s for p in ps), ps a tuple of patterns
AnyIn(ps, s) == \E j \in 1..Len(ps) : Contains(s, ps[j])

\* ------------------------------------------------------------------ words

Sp == <<" ">>
W_hi == <<"h","i">>
W_hello == <<"h","e","l","l","o">>
W_hey == <<"h","e","y">>
W_hii == <<"h","i","i">>
W_rbi == <<"r","b","i">>
W_loan == <<"l","o","a","n">>
W_dlg == <<"d","l","g">>
W_fldg == <<"f","l","d","g">>
W_cap == <<"c","a","p">>
W_ltv == <<"l","t","v">>
W_kyc == <<"k","y","c">>
W_ecl == <<"e","c","l">>
W_gold == <<"g","o","l","d">>
W_aml == <<"a","m","l">>
W_first == <<"f","i","r","s","t">>
W_loss == <<"l","o","s","s">>
W_expected == <<"e","x","p","e","c","t","e","d">>
W_credit == <<"c","r","e","d","i","t">>
W_model == <<"m","o","d","e","l">>
W_governance == <<"g","o","v","e","r","n","a","n","c","e">>
W_explain == <<"e","x","p","l","a","i","n">>
W_again == <<"a","g","a","i","n">>
W_repeat == <<"r","e","p","e","a","t">>
W_clarify == <<"c","l","a","r","i","f","y">>
W_more == <<"m","o","r","e">>
W_clearly == <<"c","l","e","a","r","l","y">>
W_elaborate == <<"e","l","a","b","o","r","a","t","e">>
W_that == <<"t","h","a","t">>

\* --------------------------------------------------- follow-up detection

\* chatbot_backend.py:68-71
FOLLOWUP_PATTERNS ==
    << W_explain \o Sp \o W_again, W_repeat, W_again, W_clarify,
       W_more \o Sp \o W_clearly, W_elaborate, W_explain \o Sp \o W_that >>

\* The threshold 0.55 of "sim > 0.55", in hundredths (similarities are
\* modelled in hundredths, -100..100).
SIM_THRESHOLD == 55
\* The token limit of "len(q.split()) <= 4".
FOLLOWUP_MAX_TOKENS == 4

\* A variant of is_followup whose similarity test is "sim >= 0.55"
is_followup_run_inclusive(prev, q, sim) ==
    IF prev = <<>> THEN [result |-> FALSE, encoded |-> FALSE]
    ELSE LET ql == Strip(Lower(q)) IN
         IF AnyIn(FOLLOWUP_PATTERNS, ql) THEN [result |-> TRUE, encoded |-> FALSE]
         ELSE IF SplitLen(q) <= FOLLOWUP_MAX_TOKENS
              THEN [result |-> sim >= SIM_THRESHOLD, encoded |-> TRUE]
              ELSE [result |-> FALSE, encoded |-> FALSE]

\* is_followup(prev, q), with sim the cosine similarity the embedding model
\* yields for (prev, q) should the code ask for it. encoded records whether
\* the code reached get_embed_model()/encode.
is_followup_run(prev, q, sim) ==
    IF prev = <<>> THEN [result |-> FALSE, encoded |-> FALSE]
    ELSE LET ql == Strip(Lower(q)) IN
         IF AnyIn(FOLLOWUP_PATTERNS, ql) THEN [result |-> TRUE, encoded |-> FALSE]
         ELSE IF SplitLen(q) <= FOLLOWUP_MAX_TOKENS
              THEN [result |-> sim > SIM_THRESHOLD, encoded |-> TRUE]
              ELSE [result |-> FALSE, encoded |-> FALSE]

is_followup(prev, q, sim) == is_followup_run(prev, q, sim).result

\* --------------------------------------------------------- topic fallback

\* chatbot_backend.py:110-117, in the dict's insertion order
TOPIC_KEYWORDS ==
    << [topic |-> "DLG_Cap", kws |-> <<W_dlg, W_fldg, W_first \o Sp \o W_loss>>],
       [topic |-> "Gold_Loan_LTV", kws |-> <<W_gold, W_ltv>>],
       [topic |-> "ECL_Overview", kws |-> <<W_ecl, W_expected \o Sp \o W_credit>>],
       [topic |-> "KYC_Process", kws |-> <<W_kyc>>],
       [topic |-> "AML_Compliance", kws |-> <<W_aml>>],
       [topic |-> "Model_Governance_Framework",
        kws |-> <<W_model \o Sp \o W_governance>>] >>

DEFAULT_TOPIC == "DLG_Cap"

\* A variant of detect_topic_fallback in which the last matching topic wins
detect_topic_fallback_last(q) ==
    LET ql == Lower(q)
        hits == {i \in 1..Len(TOPIC_KEYWORDS) : AnyIn(TOPIC_KEYWORDS[i].kws, ql)}
    IN  IF hits # {}
        THEN TOPIC_KEYWORDS[CHOOSE i \in hits : \A j \in hits : j <= i].topic
        ELSE DEFAULT_TOPIC

detect_topic_fallback(q) ==
    LET ql == Lower(q)
        hits == {i \in 1..Len(TOPIC_KEYWORDS) : AnyIn(TOPIC_KEYWORDS[i].kws, ql)}
    IN  IF hits # {}
        THEN TOPIC_KEYWORDS[CHOOSE i \in hits : \A j \in hits : i <= j].topic
        ELSE DEFAULT_TOPIC

\* ------------------------------------------------- language-model replies

\* What one chat.completions.create call can do: raise (network, API error,
\* no choices), or return a message whose content is None or a text.
LlmRaise == [kind |-> "raise", content |-> <<>>]
LlmContent(c) == [kind |-> "content", content |-> c]

\* Classifier responses. A response text is a sequence of segments: "{" and
\* "}" are segments of their own, whitespace is a segment of its own, and
\* every other segment is a run of characters holding no brace.
J_chit == <<"{", "\"intent\":\"chit_chat\",\"topic\":null", "}">>
J_rbi_dlg == <<"{", "\"intent\":\"rbi_query\",\"topic\":\"DLG_Cap\"", "}">>
J_rbi_null == <<"{", "\"intent\":\"rbi_query\",\"topic\":null", "}">>
J_rbi_only == <<"{", "\"intent\":\"rbi_query\"", "}">>
J_topic_only == <<"{", "\"topic\":\"KYC_Process\"", "}">>
J_null_intent == <<"{", "\"intent\":null,\"topic\":\"DLG_Cap\"", "}">>
J_weather == <<"{", "\"intent\":\"weather\",\"topic\":null", "}">>
J_empty == <<"{", "}">>
J_bad == <<"{", "intent=chit_chat", "}">>
T_prose == <<"Sure!", " ">> \o J_chit \o <<" ", "Hope", " ", "this", " ", "helps.">>
T_two == J_chit \o <<" ", "OR", " ">> \o J_rbi_dlg
T_cut == <<"{", "\"intent\":\"rbi_query\",\"topic\":">>
T_nojson == <<"This", " ", "is", " ", "a", " ", "greeting.">>
T_padded == <<" ", "\n">> \o J_rbi_dlg \o <<"\n">>

IntentContents ==
    { J_chit, J_rbi_dlg, J_rbi_null, J_rbi_only, J_topic_only, J_null_intent,
      J_weather, J_empty, J_bad, T_prose, T_two, T_cut, T_nojson, T_padded,
      <<>>, <<" ">>, NoneText }

IntentResponses == {LlmRaise} \cup {LlmContent(c) : c \in IntentContents}

\* re.search(r"\{.*\}", raw, re.DOTALL): the leftmost match is greedy, from
\* the first "{" to the last "}" of the text. <<>> stands for no match (a
\* match is never empty).
ReSearchBraces(raw) ==
    LET opens == {i \in 1..Len(raw) : raw[i] = "{"}
        closes == {i \in 1..Len(raw) : raw[i] = "}"}
    IN  IF opens = {} \/ closes = {} THEN <<>>
        ELSE LET first == CHOOSE i \in opens : \A j \in opens : i <= j
                 last == CHOOSE i \in closes : \A j \in closes : j <= i
             IN  IF first < last THEN SubSeq(raw, first, last) ELSE <<>>

\* json.loads on the texts of this model: the dict it returns (a function
\* from keys to values, None for null), or a JSONDecodeError.
JsonLoads(s) ==
    CASE s = J_chit -> [ok |-> TRUE, data |-> ("intent" :> "chit_chat") @@ ("topic" :> NoneAtom)]
      [] s = J_rbi_dlg -> [ok |-> TRUE, data |-> ("intent" :> "rbi_query") @@ ("topic" :> "DLG_Cap")]
      [] s = J_rbi_null -> [ok |-> TRUE, data |-> ("intent" :> "rbi_query") @@ ("topic" :> NoneAtom)]
      [] s = J_rbi_only -> [ok |-> TRUE, data |-> ("intent" :> "rbi_query")]
      [] s = J_topic_only -> [ok |-> TRUE, data |-> ("topic" :> "KYC_Process")]
      [] s = J_null_intent -> [ok |-> TRUE, data |-> ("intent" :> NoneAtom) @@ ("topic" :> "DLG_Cap")]
      [] s = J_weather -> [ok |-> TRUE, data |-> ("intent" :> "weather") @@ ("topic" :> NoneAtom)]
      [] s = J_empty -> [ok |-> TRUE, data |-> <<>>]
      [] OTHER -> [ok |-> FALSE, data |-> <<>>]

\* dict.get(key, default)
DictGet(d, k, default) == IF k \in DOMAIN d THEN d[k] ELSE default

\* ------------------------------------------------------ intent classifier

GREETINGS == {W_hi, W_hello, W_hey, W_hii}
GREETING_PREFIXES == <<W_hi \o Sp, W_hello \o Sp, W_hey \o Sp>>
\* A variant of the keyword list of line 135 without "ltv"
DOMAIN_KEYWORDS_no_ltv == <<W_rbi, W_loan, W_dlg, W_fldg, W_cap, W_kyc, W_ecl>>
DOMAIN_KEYWORDS == <<W_rbi, W_loan, W_dlg, W_fldg, W_cap, W_ltv, W_kyc, W_ecl>>

\* The try block of llm_intent (lines 146-158) with resp the behaviour of
\* the language model: it returns a pair, raises, or falls through.
intent_try(resp) ==
    IF resp.kind = "raise" THEN [how |-> "raise", intent |-> NoneAtom, topic |-> NoneAtom]
    ELSE LET raw == Strip(IF resp.content = NoneText THEN <<>> ELSE resp.content)
             match == ReSearchBraces(raw)
         IN  IF match = <<>>
             THEN [how |-> "fall", intent |-> NoneAtom, topic |-> NoneAtom]
             ELSE LET parsed == JsonLoads(match) IN
                  IF ~parsed.ok
                  THEN [how |-> "raise", intent |-> NoneAtom, topic |-> NoneAtom]
                  ELSE [how |-> "return",
                        intent |-> DictGet(parsed.data, "intent", "rbi_query"),
                        topic |-> DictGet(parsed.data, "topic", NoneAtom)]

\* What follows an exception of the try block: "except Exception" logs it and
\* execution goes on to the final return.
intent_except(t) == IF t.how = "raise" THEN [t EXCEPT !.how = "fall"] ELSE t

\* llm_intent(q): raised tells whether the call ended in an exception,
\* llm_calls counts the requests sent to the language model.
llm_intent(q, resp) ==
    LET ql == Strip(Lower(q)) IN
    IF ql \in GREETINGS \/ \E i \in 1..Len(GREETING_PREFIXES) : StartsWith(ql, GREETING_PREFIXES[i])
    THEN [raised |-> FALSE, intent |-> "chit_chat", topic |-> NoneAtom, llm_calls |-> 0]
    ELSE IF AnyIn(DOMAIN_KEYWORDS, ql)
    THEN [raised |-> FALSE, intent |-> "rbi_query", topic |-> detect_topic_fallback(q), llm_calls |-> 0]
    ELSE LET t == intent_except(intent_try(resp)) IN
         CASE t.how = "return" ->
                [raised |-> FALSE, intent |-> t.intent, topic |-> t.topic, llm_calls |-> 1]
           [] t.how = "fall" ->
                [raised |-> FALSE, intent |-> "rbi_query", topic |-> detect_topic_fallback(q), llm_calls |-> 1]
           [] OTHER ->
                [raised |-> TRUE, intent |-> NoneAtom, topic |-> NoneAtom, llm_calls |-> 1]

\* ---------------------------------------------------------------- retrieval

\* Node and fragment identifiers are sequences of segments, the kind prefixes
\* "Chunk::" and "Clause::" being segments of their own.
CHUNK_PREFIX == <<"Chunk::">>
CLAUSE_PREFIX == <<"Clause::">>

\* str.replace(seg, ""): every occurrence of the segment is removed
Remove(s, seg) == SelectSeq(s, LAMBDA x : <<x>> # seg)

\* s[:n]
Take(s, n) == SubSeq(s, 1, IF Len(s) < n THEN Len(s) ELSE n)

\* The elements of a list
Range(s) == {s[i] : i \in 1..Len(s)}

\* The lists that hold each element of a set once: what list(set(...)) can
\* yield, the iteration order of a set of strings being the interpreter's.
Orderings(S) ==
    {p \in [1..Cardinality(S) -> S] : \A x \in S : \E i \in DOMAIN p : p[i] = x}

\* The fragment store loaded at import (load_all_chunks): fragment f2 has an
\* empty text, and no other identifier is known to the store.
F1 == <<"f1">>
F2 == <<"f2">>
F3 == <<"f3">>
id2text == (F1 :> <<"t","1">>) @@ (F2 :> <<>>)

\* dict.get(cid, "") on the fragment store
TextOf(cid) == IF cid \in DOMAIN id2text THEN id2text[cid] ELSE <<>>

\* What a call to the graph database, or to the vector search, can do.
CallRaise == [kind |-> "raise", value |-> <<>>]
CallOk(v) == [kind |-> "ok", value |-> v]

\* A variant of the normalisation that strips the prefix "Chunk::" only
normalized_kg_chunks_kept(nodes) ==
    LET kept == SelectSeq(nodes, LAMBDA nid :
                    StartsWith(nid, CHUNK_PREFIX) \/ StartsWith(nid, CLAUSE_PREFIX))
    IN  [i \in 1..Len(kept) |-> Remove(kept[i], CHUNK_PREFIX)]

\* hybrid_retrieve lines 63-69: graph node identifiers to fragment identifiers
normalized_kg_chunks(nodes) ==
    LET kept == SelectSeq(nodes, LAMBDA nid :
                    StartsWith(nid, CHUNK_PREFIX) \/ StartsWith(nid, CLAUSE_PREFIX))
    IN  [i \in 1..Len(kept) |->
            IF StartsWith(kept[i], CHUNK_PREFIX)
            THEN Remove(kept[i], CHUNK_PREFIX)
            ELSE Remove(kept[i], CLAUSE_PREFIX)]

\* rag_ids of line 73
rag_ids(rag_results) == [i \in 1..Len(rag_results) |-> rag_results[i].id]

\* The set of line 76, of which merged_ids is some ordering
merged_set(nodes, rag_results) ==
    Range(normalized_kg_chunks(nodes) \o rag_ids(rag_results))

\* A variant of get_kg_facts that queries the graph database for any list
get_kg_facts_always(node_ids, graph) ==
    IF graph.kind = "raise" THEN [raised |-> TRUE, facts |-> <<>>, queried |-> TRUE]
    ELSE [raised |-> FALSE, facts |-> graph.value, queried |-> TRUE]

\* get_kg_facts(node_ids) with graph the behaviour of the graph database
\* should it be queried: queried tells whether a query was sent.
get_kg_facts(node_ids, graph) ==
    IF node_ids = <<>> THEN [raised |-> FALSE, facts |-> <<>>, queried |-> FALSE]
    ELSE IF graph.kind = "raise" THEN [raised |-> TRUE, facts |-> <<>>, queried |-> TRUE]
    ELSE [raised |-> FALSE, facts |-> graph.value, queried |-> TRUE]

\* hybrid_retrieve(query, topic_key), given the behaviour of its three
\* collaborator calls (topic lookup kg, vector search rag, facts lookup
\* graph) and the order merged_ids in which the merged set is listed. An
\* exception of a call leaves the function at once: nothing catches it.
hybrid_retrieve(kg, rag, merged_ids, graph) ==
    IF kg.kind = "raise"
    THEN [raised |-> TRUE, chunks |-> <<>>, kg_facts |-> <<>>, stage |-> "topic",
          facts_queried |-> FALSE]
    ELSE IF rag.kind = "raise"
    THEN [raised |-> TRUE, chunks |-> <<>>, kg_facts |-> <<>>, stage |-> "vector",
          facts_queried |-> FALSE]
    ELSE LET f == get_kg_facts([i \in 1..Len(merged_ids) |-> CHUNK_PREFIX \o merged_ids[i]], graph)
         IN  IF f.raised
             THEN [raised |-> TRUE, chunks |-> <<>>, kg_facts |-> <<>>, stage |-> "facts",
                   facts_queried |-> f.queried]
             ELSE [raised |-> FALSE,
                   chunks |-> [i \in 1..Len(merged_ids) |->
                                 [id |-> merged_ids[i], text |-> TextOf(merged_ids[i])]],
                   kg_facts |-> f.facts,
                   stage |-> "done",
                   facts_queried |-> f.queried]

PREVIEW_LEN == 400
EXCERPT_LEN == 1200

\* retrieve(query, topic), lines 166-174, on the result of hybrid_retrieve
retrieve(h) ==
    [raised |-> h.raised,
     stage |-> h.stage,
     chunks |-> [i \in 1..Len(h.chunks) |->
                   [id |-> Remove(h.chunks[i].id, CHUNK_PREFIX), text |-> h.chunks[i].text]],
     kg_facts |-> h.kg_facts,
     used |-> [i \in 1..Len(h.chunks) |->
                 [id |-> Remove(h.chunks[i].id, CHUNK_PREFIX),
                  preview |-> Take(h.chunks[i].text, PREVIEW_LEN)]]]

\* -------------------------------------------------------------- vector search

\* load_all_chunks (hybrid_retrieval.py:13-32) on the chunks of the corpus
\* files, in file order: a chunk without chunk_id is skipped, the others
\* fill id2text and all_ids.
load_all_chunks(chunks) ==
    LET kept == SelectSeq(chunks, LAMBDA ch : ch.chunk_id \notin {NoneText, <<>>})
    IN  [id2text |-> [cid \in {kept[i].chunk_id : i \in 1..Len(kept)} |->
                        LET last == CHOOSE i \in 1..Len(kept) :
                                       /\ kept[i].chunk_id = cid
                                       /\ \A j \in 1..Len(kept) : kept[j].chunk_id = cid => j <= i
                        IN  kept[last].text],
         all_ids |-> [i \in 1..Len(kept) |-> kept[i].chunk_id]]

\* The default of the parameter top_k of rag_search
TOP_K == 5

\* scores.topk(k).indices: the index lists torch.topk may yield for a score
\* vector of at least k entries. The k largest scores are listed in
\* descending order; which of several equal scores is taken, and in what
\* order equal scores are listed, is not defined by torch.
TopkIndices(scores, k) ==
    {top \in [1..k -> 1..Len(scores)] :
        /\ \A a, b \in 1..k : top[a] = top[b] => a = b
        /\ \A a, b \in 1..k : a < b => scores[top[a]] >= scores[top[b]]
        /\ \A i \in 1..Len(scores) :
              (\A a \in 1..k : top[a] # i) => \A a \in 1..k : scores[i] <= scores[top[a]]}

\* rag_search(query, top_k) on the loaded corpus, scores being the cosine
\* similarities of the query to the fragments of all_ids and top the indices
\* of topk. topk raises when top_k exceeds the number of scores.
rag_search(corpus, scores, top_k, top) ==
    IF top_k > Len(scores)
    THEN [raised |-> TRUE, indices |-> <<>>, results |-> <<>>]
    ELSE [raised |-> FALSE, indices |-> top,
          results |-> [a \in 1..Len(top) |->
                         [id |-> corpus.all_ids[top[a]],
                          text |-> corpus.id2text[corpus.all_ids[top[a]]]]]]

\* ------------------------------------------------------------------ prompt

\* The relations of the facts in order of first appearance (the keys of the
\* dict "grouped")
RECURSIVE Relations(_)
Relations(facts) ==
    IF facts = <<>> THEN <<>>
    ELSE LET rest == Relations(SubSeq(facts, 1, Len(facts) - 1))
             rel == facts[Len(facts)].relation
         IN  IF rel \in Range(rest) THEN rest ELSE Append(rest, rel)

\* The labels of a list of facts
FactLabels(kg_facts) == {kg_facts[j].label : j \in 1..Len(kg_facts)}

\* list(set(items)) of line 16: the labels of the set in the order in which
\* the interpreter iterates a set of strings. That order follows the hashes
\* of the strings, which are salted anew at each start of the process:
\* set_order lists the labels in the order of the running process.
ListOfSet(set_order, items) == SelectSeq(set_order, LAMBDA x : x \in items)

\* build_prompt(question, chunks, kg_facts): the sections of the prompt, in
\* a process whose set order is set_order.
build_prompt(question, chunks, kg_facts, set_order) ==
    [question |-> question,
     kg_info |-> LET rels == Relations(kg_facts) IN
                 [i \in 1..Len(rels) |->
                    [relation |-> rels[i],
                     labels |-> ListOfSet(set_order, {kg_facts[j].label : j \in
                                   {k \in 1..Len(kg_facts) : kg_facts[k].relation = rels[i]}})]],
     excerpts |-> [i \in 1..Len(chunks) |->
                     [id |-> chunks[i].id, text |-> Take(chunks[i].text, EXCERPT_LEN)]]]

NO_PREVIOUS == <<"(none)">>

\* build_llm_prompt(q, chunks, kg_facts, prev), lines 177-192
build_llm_prompt(q, chunks, kg_facts, prev, set_order) ==
    [previous_answer |-> IF prev = <<>> THEN NO_PREVIOUS ELSE prev,
     body |-> build_prompt(q, chunks, kg_facts, set_order)]

\* The prompt of the chit-chat reply, line 230
chit_chat_prompt(q) == [previous_answer |-> <<>>, body |-> <<"You are friendly. Reply briefly to: ">> \o q]

\* call_llm(prompt) and rewrite_followup(prev, q), given the behaviour resp of
\* the language model: content.strip(), an exception of the call, or the
\* AttributeError of None.strip().
call_llm_degraded(resp) ==
    IF resp.kind = "raise" \/ resp.content = NoneText
    THEN [raised |-> FALSE, text |-> <<>>]
    ELSE [raised |-> FALSE, text |-> Strip(resp.content)]
call_llm(resp) ==
    IF resp.kind = "raise" \/ resp.content = NoneText
    THEN [raised |-> TRUE, text |-> <<>>]
    ELSE [raised |-> FALSE, text |-> Strip(resp.content)]

rewrite_followup(resp) ==
    IF resp.kind = "raise" \/ resp.content = NoneText
    THEN [raised |-> TRUE, text |-> <<>>]
    ELSE [raised |-> FALSE, text |-> Strip(resp.content)]

\* ------------------------------------------------------------------- state

VARIABLES
    conversation_memory,  \* dict: conversation id -> last answer
    embed_model_loaded,   \* _embed_model is not None
    uuid_count,           \* identifiers handed out by uuid.uuid4()
    asks,                 \* requests submitted so far
    requests,             \* per request in the thread pool: its position, its locals
                          \* and what it has done (calls made, keys read and written)
    answered,             \* history: conversation id -> answer of the latest 200 response
    cleared_since,        \* history: ids cleared by a request since their latest 200 response
    probe                 \* input and result of a function applied on its own

vars == <<conversation_memory, embed_model_loaded, uuid_count, asks, requests,
          answered, cleared_since, probe>>

\* The requests the server may be handling at one time
Requests == {"r1", "r2"}

\* Conversation identifiers: what a client sends (none, the empty string, or
\* a token) and what uuid4 yields.
NoCid == <<"None", 0>>
EmptyCid == <<"", 0>>
ClientCid(i) == <<"client", i>>
Uuid4(n) == <<"uuid4", n>>
ConversationIds == {NoCid, ClientCid(1)}

\* The fixed answer of line 243
NOT_FOUND_REPLY == <<"I cannot find this information in the provided RBI documents.">>

\* Questions submitted to /ask
Q_blank == <<" ", " ">>
Q_hi == <<" ">> \o W_hi
Q_dlg_cap == W_dlg \o Sp \o W_cap
Q_explain_again == <<"E">> \o Tail(W_explain) \o Sp \o W_again
AskQuestions == {Q_blank, Q_hi, Q_dlg_cap, Q_explain_again}

\* Behaviours of the language model in a request
AskIntentResponses ==
    {LlmRaise, LlmContent(J_chit), LlmContent(J_rbi_dlg), LlmContent(J_rbi_null),
     LlmContent(T_nojson)}
TextResponses ==
    {LlmRaise, LlmContent(NoneText), LlmContent(<<"A">>), LlmContent(<<" ", "B", "\n">>),
     LlmContent(<<" ">>)}
\* Similarities the embedding model may yield, in hundredths
AskSims == {SIM_THRESHOLD, 90}

\* Behaviours of the graph database and of the vector search in a request
FACT1 == [source |-> CHUNK_PREFIX \o F1, relation |-> "pertainsTo",
          target |-> <<"Topic::", "DLG_Cap">>, label |-> "DLG Cap"]
KgOutcomes ==
    {CallRaise, CallOk(<<>>),
     CallOk(<<CHUNK_PREFIX \o F1, <<"Topic::", "DLG_Cap">>, CLAUSE_PREFIX \o F1>>)}
RagOutcomes == {CallRaise, CallOk(<<>>), CallOk(<<[id |-> F2, text |-> id2text[F2]]>>)}
GraphOutcomes == {CallRaise, CallOk(<<>>), CallOk(<<FACT1>>)}

\* dict.get(cid, "") / dict[cid] = reply / dict.pop(cid, None)
get_last_reply(mem, cid) == IF cid \in DOMAIN mem THEN mem[cid] ELSE <<>>
set_last_reply_all(mem, cid, reply) == [c \in DOMAIN mem \cup {cid} |-> reply]
set_last_reply_first(mem, cid, reply) ==
    [c \in DOMAIN mem \cup {cid} |-> IF c \in DOMAIN mem THEN mem[c] ELSE reply]
set_last_reply(mem, cid, reply) ==
    [c \in DOMAIN mem \cup {cid} |-> IF c = cid THEN reply ELSE mem[c]]
clear_conversation_kept(mem, cid) == mem
clear_conversation(mem, cid) == [c \in DOMAIN mem \ {cid} |-> mem[c]]

\* Responses of /ask
EmptyBody == [conversation_id |-> NoCid, answer |-> <<>>, chunks_used |-> <<>>, kg_facts |-> <<>>]
NoResponse == [status |-> 0, body |-> EmptyBody]
Http400 == [status |-> 400, body |-> EmptyBody]
Http500 == [status |-> 500, body |-> EmptyBody]
Http200(cid, answer, used, facts) ==
    [status |-> 200,
     body |-> [conversation_id |-> cid, answer |-> answer, chunks_used |-> used, kg_facts |-> facts]]

NoPrompt == [previous_answer |-> <<>>, body |-> <<>>]
NoCalls == [classify |-> 0, rewrite |-> 0, generate |-> 0]

\* A request slot before a request is submitted to it
IdleRequest ==
    [pc |-> "idle", question |-> <<>>, conversation_id |-> NoCid, clear |-> FALSE,
     cid |-> NoCid, q |-> <<>>, prev |-> <<>>, intent |-> NoneAtom, topic |-> NoneAtom,
     followup |-> FALSE, chunks |-> <<>>, kg_facts |-> <<>>, used |-> <<>>,
     prompt |-> NoPrompt, response |-> NoResponse,
     llm_calls |-> NoCalls, generated |-> LlmContent(<<>>), failed_at |-> "",
     retrieved |-> FALSE, reads |-> {}, writes |-> <<>>, popped |-> NoneText,
     overlapped |-> FALSE]

InFlight(r) == requests[r].pc \notin {"idle", "done"}

Init ==
    /\ conversation_memory = <<>>
    /\ embed_model_loaded = FALSE
    /\ uuid_count = 0
    /\ asks = 0
    /\ requests = [r \in Requests |-> IdleRequest]
    /\ answered = <<>>
    /\ cleared_since = {}
    /\ probe = [fn |-> "none"]

\* A response leaves the server: done, with the history of 200 responses kept
Finish(r, rec, response) ==
    /\ requests' = [requests EXCEPT ![r] = [rec EXCEPT !.pc = "done", !.response = response]]
    /\ IF response.status = 200
       THEN /\ answered' = [c \in DOMAIN answered \cup {response.body.conversation_id} |->
                               IF c = response.body.conversation_id
                               THEN response.body.answer ELSE answered[c]]
            /\ cleared_since' = cleared_since \ {response.body.conversation_id}
       ELSE UNCHANGED <<answered, cleared_since>>

\* ask lines 214-217: the empty question is rejected, the conversation
\* identifier is taken or made.
AskBegin(r, question, conversation_id, clear) ==
    /\ requests[r].pc = "idle"
    /\ asks < MaxAsks
    /\ asks' = asks + 1
    /\ UNCHANGED <<conversation_memory, embed_model_loaded, cleared_since, probe>>
    /\ LET rec == [IdleRequest EXCEPT !.question = question,
                      !.conversation_id = conversation_id, !.clear = clear]
           others == {o \in Requests \ {r} : InFlight(o)}
       IN  IF Strip(question) = <<>>
           THEN /\ Finish(r, rec, Http400)
                /\ UNCHANGED uuid_count
           ELSE LET fresh == conversation_id \in {NoCid, EmptyCid}
                    cid == IF fresh THEN Uuid4(uuid_count + 1) ELSE conversation_id
                IN  /\ uuid_count' = IF fresh THEN uuid_count + 1 ELSE uuid_count
                    /\ requests' = [o \in Requests |->
                          IF o = r
                          THEN [rec EXCEPT !.pc = IF clear THEN "clear" ELSE "read",
                                           !.cid = cid, !.overlapped = (others # {})]
                          ELSE IF o \in others THEN [requests[o] EXCEPT !.overlapped = TRUE]
                          ELSE requests[o]]
                    /\ UNCHANGED answered

\* ask lines 218-219: the conversation is cleared on request
AskClear(r) ==
    /\ requests[r].pc = "clear"
    /\ conversation_memory' = clear_conversation(conversation_memory, requests[r].cid)
    /\ cleared_since' = cleared_since \cup {requests[r].cid}
    /\ requests' = [requests EXCEPT ![r] =
          [requests[r] EXCEPT !.pc = "read",
              !.popped = IF requests[r].cid \in DOMAIN conversation_memory
                         THEN conversation_memory[requests[r].cid] ELSE NoneText]]
    /\ UNCHANGED <<embed_model_loaded, uuid_count, asks, answered, probe>>

\* ask lines 221-222
AskReadPrev(r) ==
    /\ requests[r].pc = "read"
    /\ requests' = [requests EXCEPT ![r] =
          [requests[r] EXCEPT !.pc = "intent", !.q = Strip(requests[r].question),
                    !.prev = get_last_reply(conversation_memory, requests[r].cid),
                    !.reads = @ \cup {requests[r].cid}]]
    /\ UNCHANGED <<conversation_memory, embed_model_loaded, uuid_count, asks,
                   answered, cleared_since, probe>>

\* ask lines 224-228: the intent is classified and the request branches
AskIntent(r, resp) ==
    /\ requests[r].pc = "intent"
    /\ LET rec == requests[r]
           res == llm_intent(rec.q, resp)
           called == [rec EXCEPT !.llm_calls.classify = @ + res.llm_calls]
       IN  IF res.raised
           THEN Finish(r, [called EXCEPT !.failed_at = "intent"], Http500)
           ELSE /\ requests' = [requests EXCEPT ![r] =
                      [called EXCEPT !.intent = res.intent, !.topic = res.topic,
                          !.pc = IF res.intent = "chit_chat" THEN "chit_chat" ELSE "followup"]]
                /\ UNCHANGED <<answered, cleared_since>>
    /\ UNCHANGED <<conversation_memory, embed_model_loaded, uuid_count, asks, probe>>

\* ask lines 229-234
AskChitChat(r, resp) ==
    /\ requests[r].pc = "chit_chat"
    /\ LET rec == [requests[r] EXCEPT !.llm_calls.generate = @ + 1, !.generated = resp,
                                      !.prompt = chit_chat_prompt(requests[r].q)]
           reply == call_llm(resp)
       IN  IF reply.raised
           THEN /\ Finish(r, [rec EXCEPT !.failed_at = "generate"], Http500)
                /\ UNCHANGED conversation_memory
           ELSE /\ conversation_memory' = set_last_reply(conversation_memory, rec.cid, reply.text)
                /\ Finish(r, [rec EXCEPT !.writes = Append(@, rec.cid)],
                          Http200(rec.cid, reply.text, <<>>, <<>>))
    /\ UNCHANGED <<embed_model_loaded, uuid_count, asks, probe>>

\* ask lines 237-238
AskFollowup(r, sim, resp) ==
    /\ requests[r].pc = "followup"
    /\ LET rec == requests[r]
           f == is_followup_run(rec.prev, rec.q, sim)
           rw == rewrite_followup(resp)
       IN  /\ embed_model_loaded' = (embed_model_loaded \/ f.encoded)
           /\ IF ~f.result
              THEN /\ requests' = [requests EXCEPT ![r] = [rec EXCEPT !.pc = "retrieve"]]
                   /\ UNCHANGED <<answered, cleared_since>>
              ELSE IF rw.raised
              THEN Finish(r, [rec EXCEPT !.followup = TRUE, !.llm_calls.rewrite = @ + 1,
                                         !.failed_at = "rewrite"], Http500)
              ELSE /\ requests' = [requests EXCEPT ![r] =
                         [rec EXCEPT !.pc = "retrieve", !.followup = TRUE, !.q = rw.text,
                                     !.llm_calls.rewrite = @ + 1]]
                   /\ UNCHANGED <<answered, cleared_since>>
    /\ UNCHANGED <<conversation_memory, uuid_count, asks, probe>>

\* ask line 240
AskRetrieve(r, kg, rag, graph) ==
    /\ requests[r].pc = "retrieve"
    /\ \E merged_ids \in (IF kg.kind = "raise" \/ rag.kind = "raise" THEN {<<>>}
                           ELSE Orderings(merged_set(kg.value, rag.value))) :
       LET rec == requests[r]
           res == retrieve(hybrid_retrieve(kg, rag, merged_ids, graph))
       IN  IF res.raised
           THEN Finish(r, [rec EXCEPT !.failed_at = res.stage], Http500)
           ELSE /\ requests' = [requests EXCEPT ![r] =
                      [rec EXCEPT !.pc = "evidence", !.retrieved = TRUE, !.chunks = res.chunks,
                                  !.kg_facts = res.kg_facts, !.used = res.used]]
                /\ UNCHANGED <<answered, cleared_since>>
    /\ UNCHANGED <<conversation_memory, embed_model_loaded, uuid_count, asks, probe>>

AskNotFound_error(r) ==
    /\ requests[r].pc = "evidence"
    /\ requests[r].chunks = <<>> /\ requests[r].kg_facts = <<>>
    /\ Finish(r, requests[r], Http500)
    /\ UNCHANGED <<conversation_memory, embed_model_loaded, uuid_count, asks, probe>>

\* ask lines 242-245
AskNotFound(r) ==
    /\ requests[r].pc = "evidence"
    /\ requests[r].chunks = <<>> /\ requests[r].kg_facts = <<>>
    /\ LET rec == requests[r] IN
       /\ conversation_memory' = set_last_reply(conversation_memory, rec.cid, NOT_FOUND_REPLY)
       /\ Finish(r, [rec EXCEPT !.writes = Append(@, rec.cid)],
                 Http200(rec.cid, NOT_FOUND_REPLY, <<>>, <<>>))
    /\ UNCHANGED <<embed_model_loaded, uuid_count, asks, probe>>

\* ask lines 247-256
AskAnswer(r, resp) ==
    /\ requests[r].pc = "evidence"
    /\ ~(requests[r].chunks = <<>> /\ requests[r].kg_facts = <<>>)
    /\ \E set_order \in Orderings(FactLabels(requests[r].kg_facts)) :
       LET rec == [requests[r] EXCEPT !.llm_calls.generate = @ + 1, !.generated = resp,
                      !.prompt = build_llm_prompt(requests[r].q, requests[r].chunks,
                                                  requests[r].kg_facts, requests[r].prev,
                                                  set_order)]
           answer == call_llm(resp)
       IN  IF answer.raised
           THEN /\ Finish(r, [rec EXCEPT !.failed_at = "generate"], Http500)
                /\ UNCHANGED conversation_memory
           ELSE /\ conversation_memory' = set_last_reply(conversation_memory, rec.cid, answer.text)
                /\ Finish(r, [rec EXCEPT !.writes = Append(@, rec.cid)],
                          Http200(rec.cid, answer.text, rec.used, rec.kg_facts))
    /\ UNCHANGED <<embed_model_loaded, uuid_count, asks, probe>>

\* The response has been sent and the worker thread is back in the pool
AskReturn(r) ==
    /\ requests[r].pc = "done"
    /\ requests' = [requests EXCEPT ![r] = IdleRequest]
    /\ UNCHANGED <<conversation_memory, embed_model_loaded, uuid_count, asks,
                   answered, cleared_since, probe>>

\* A request submitted while the server handles no other
AskBeginSerial(r, question, conversation_id, clear) ==
    /\ \A o \in Requests : requests[o].pc = "idle"
    /\ AskBegin(r, question, conversation_id, clear)

\* The steps of a request once it is begun, the collaborators behaving as
\* one of env
AskStep(r, env) ==
    \/ AskClear(r)
    \/ AskReadPrev(r)
    \/ \E resp \in env.intents : AskIntent(r, resp)
    \/ \E resp \in env.texts : AskChitChat(r, resp)
    \/ \E sim \in env.sims, resp \in env.texts : AskFollowup(r, sim, resp)
    \/ \E kg \in env.kg, rag \in env.rag, graph \in env.graph :
          AskRetrieve(r, kg, rag, graph)
    \/ AskNotFound(r)
    \/ \E resp \in env.texts : AskAnswer(r, resp)

SerialEnv ==
    [intents |-> AskIntentResponses, texts |-> TextResponses, sims |-> AskSims,
     kg |-> KgOutcomes, rag |-> RagOutcomes, graph |-> GraphOutcomes]

\* Requests handled one after another: a client waits for its answer before
\* it asks again.
Next ==
    \E r \in Requests :
       \/ \E question \in AskQuestions, conversation_id \in ConversationIds, clear \in BOOLEAN :
             AskBeginSerial(r, question, conversation_id, clear)
       \/ AskStep(r, SerialEnv)
       \/ AskReturn(r)

Spec == Init /\ [][Next]_vars

\* Two requests handled concurrently by the thread pool, interleaved at every
\* access to the conversation memory, after an earlier request may have
\* left an answer in the memory.
RaceQuestions == {Q_hi, Q_dlg_cap}
RaceConversationIds == {ClientCid(1), ClientCid(2)}
RaceEnv ==
    [intents |-> {LlmRaise},
     texts |-> {LlmRaise, LlmContent(<<"A">>), LlmContent(<<" ", "B", "\n">>)},
     sims |-> AskSims,
     kg |-> {CallRaise, CallOk(<<>>), CallOk(<<CHUNK_PREFIX \o F1>>)},
     rag |-> {CallOk(<<>>)},
     graph |-> {CallOk(<<>>)}]

InitRace ==
    /\ conversation_memory \in {<<>>, (ClientCid(1) :> <<"Z">>)}
    /\ answered = conversation_memory
    /\ embed_model_loaded = FALSE
    /\ uuid_count = 0
    /\ asks = 0
    /\ requests = [r \in Requests |-> IdleRequest]
    /\ cleared_since = {}
    /\ probe = [fn |-> "none"]

NextRace ==
    \E r \in Requests :
       \/ \E question \in RaceQuestions, conversation_id \in RaceConversationIds, clear \in BOOLEAN :
             AskBegin(r, question, conversation_id, clear)
       \/ AskStep(r, RaceEnv)

SpecRace == InitRace /\ [][NextRace]_vars

\* ------------------------------------------- functions applied on their own

W_high == W_hi \o <<"g", "h">>
W_weather == <<"w","e","a","t","h","e","r">>
W_escape == <<"e","s","c","a","p","e">>

\* str.capitalize() of a lower-case word, first letter only
Capitalized(s) ==
    IF s # <<>> /\ \E i \in 1..26 : LowerCase[i] = s[1]
    THEN <<UpperCase[CHOOSE i \in 1..26 : LowerCase[i] = s[1]]>> \o Tail(s)
    ELSE s

\* The texts of exactly n words of a vocabulary, joined by sep
RECURSIVE Joined(_, _, _)
Joined(vocabulary, n, sep) ==
    IF n = 1 THEN vocabulary
    ELSE {p \o sep \o w : p \in Joined(vocabulary, n - 1, sep), w \in vocabulary}

Phrases(vocabulary, most, sep) == UNION {Joined(vocabulary, n, sep) : n \in 1..most}

\* Questions put to llm_intent
IntentVocabulary ==
    {W_hi, W_hello, W_hey, W_hii, W_high, W_rbi, W_gold, W_ltv, W_dlg, W_weather, W_escape}
IntentQuestions ==
    LET plain == Phrases(IntentVocabulary, MaxWords, Sp) IN
    plain \cup {<<" ">> \o Capitalized(q) \o <<" ", "\n">> : q \in plain} \cup {<<>>}
          \cup {w \o Sp \o W_gold \o Sp \o W_ltv : w \in IntentVocabulary}
          \cup {Capitalized(W_ltv) \o Sp \o W_gold \o Sp \o w : w \in IntentVocabulary}

NoIntent == [raised |-> FALSE, intent |-> NoneAtom, topic |-> NoneAtom, llm_calls |-> 0]

InitIntent ==
    /\ conversation_memory = <<>>
    /\ embed_model_loaded = FALSE
    /\ uuid_count = 0
    /\ asks = 0
    /\ requests = [r \in Requests |-> IdleRequest]
    /\ answered = <<>>
    /\ cleared_since = {}
    /\ probe \in {[fn |-> "llm_intent", done |-> FALSE, q |-> q, resp |-> resp, out |-> NoIntent] :
                     q \in IntentQuestions, resp \in IntentResponses}

ApplyIntent ==
    /\ probe.fn = "llm_intent" /\ ~probe.done
    /\ probe' = [probe EXCEPT !.done = TRUE, !.out = llm_intent(probe.q, probe.resp)]
    /\ UNCHANGED <<conversation_memory, embed_model_loaded, uuid_count, asks, requests,
                   answered, cleared_since>>

SpecIntent == InitIntent /\ [][ApplyIntent]_vars

\* Questions, previous answers and similarities put to is_followup
MaxTokens == 5
FollowupVocabulary == {W_explain, W_that, W_again, W_dlg}
FollowupQuestions ==
    LET plain == Phrases(FollowupVocabulary, MaxTokens, Sp)
                   \cup Phrases(FollowupVocabulary \ {W_again}, MaxTokens, <<"\t">>)
    IN  plain \cup {<<" ">> \o Capitalized(q) \o <<" ">> : q \in Phrases(FollowupVocabulary, 2, Sp)}
              \cup {<<>>}
FollowupPrevs == {<<>>, <<"A">>, NOT_FOUND_REPLY}
FollowupSims == {-10, 0, SIM_THRESHOLD - 1, SIM_THRESHOLD, SIM_THRESHOLD + 1, 90, 100}

InitFollowup ==
    /\ conversation_memory = <<>>
    /\ embed_model_loaded = FALSE
    /\ uuid_count = 0
    /\ asks = 0
    /\ requests = [r \in Requests |-> IdleRequest]
    /\ answered = <<>>
    /\ cleared_since = {}
    /\ probe \in {[fn |-> "is_followup", done |-> FALSE, prev |-> prev, q |-> q, sim |-> sim,
                   out |-> [result |-> FALSE, encoded |-> FALSE]] :
                     prev \in FollowupPrevs, q \in FollowupQuestions, sim \in FollowupSims}

ApplyFollowup ==
    /\ probe.fn = "is_followup" /\ ~probe.done
    /\ probe' = [probe EXCEPT !.done = TRUE,
                              !.out = is_followup_run(probe.prev, probe.q, probe.sim)]
    /\ UNCHANGED <<conversation_memory, embed_model_loaded, uuid_count, asks, requests,
                   answered, cleared_since>>

SpecFollowup == InitFollowup /\ [][ApplyFollowup]_vars

\* Sequences of at most n elements of S
SeqsUpTo(S, n) == UNION {[1..k -> S] : k \in 0..n}

\* What the topic lookup and the vector search hand to hybrid_retrieve
HybridNodeIds ==
    {CHUNK_PREFIX \o F1, CLAUSE_PREFIX \o F1, CLAUSE_PREFIX \o F2, CHUNK_PREFIX \o F3,
     <<"Topic::", "DLG_Cap">>}
HybridKgOutcomes == {CallRaise} \cup {CallOk(n) : n \in SeqsUpTo(HybridNodeIds, MaxNodes)}
HybridRagOutcomes ==
    {CallRaise} \cup
    {CallOk([i \in DOMAIN ids |-> [id |-> ids[i], text |-> id2text[ids[i]]]]) :
        ids \in SeqsUpTo(DOMAIN id2text, MaxHits)}

NoRetrieval ==
    [raised |-> FALSE, chunks |-> <<>>, kg_facts |-> <<>>, stage |-> "", facts_queried |-> FALSE]

InitHybrid ==
    /\ conversation_memory = <<>>
    /\ embed_model_loaded = FALSE
    /\ uuid_count = 0
    /\ asks = 0
    /\ requests = [r \in Requests |-> IdleRequest]
    /\ answered = <<>>
    /\ cleared_since = {}
    /\ probe \in {[fn |-> "hybrid_retrieve", done |-> FALSE, kg |-> kg, rag |-> rag,
                   graph |-> graph, out |-> NoRetrieval] :
                     kg \in HybridKgOutcomes, rag \in HybridRagOutcomes, graph \in GraphOutcomes}

ApplyHybrid ==
    /\ probe.fn = "hybrid_retrieve" /\ ~probe.done
    /\ \E merged_ids \in (IF probe.kg.kind = "raise" \/ probe.rag.kind = "raise" THEN {<<>>}
                           ELSE Orderings(merged_set(probe.kg.value, probe.rag.value))) :
          probe' = [probe EXCEPT !.done = TRUE,
                       !.out = hybrid_retrieve(probe.kg, probe.rag, merged_ids, probe.graph)]
    /\ UNCHANGED <<conversation_memory, embed_model_loaded, uuid_count, asks, requests,
                   answered, cleared_since>>

SpecHybrid == InitHybrid /\ [][ApplyHybrid]_vars

\* The chunks of a corpus of n chunks: the first has no chunk_id when
\* unnamed is set
CorpusChunks(n, unnamed) ==
    [i \in 1..n |-> [chunk_id |-> IF unnamed /\ i = 1 THEN NoneText ELSE <<"frag", i>>,
                     text |-> <<"text", i>>]]
\* Similarities of a query to the fragments, in hundredths
RagSims == {10, 90}
\* rag_search called without top_k, or with top_k = 2
RagArgs == {[given |-> FALSE, top_k |-> TOP_K], [given |-> TRUE, top_k |-> 2]}

NoSearch == [raised |-> FALSE, indices |-> <<>>, results |-> <<>>]

InitRag ==
    /\ conversation_memory = <<>>
    /\ embed_model_loaded = FALSE
    /\ uuid_count = 0
    /\ asks = 0
    /\ requests = [r \in Requests |-> IdleRequest]
    /\ answered = <<>>
    /\ cleared_since = {}
    /\ \E n \in 0..MaxCorpus, unnamed \in BOOLEAN :
          LET corpus == load_all_chunks(CorpusChunks(n, unnamed)) IN
          probe \in {[fn |-> "rag_search", done |-> FALSE, corpus |-> corpus,
                      scores |-> scores, arg |-> arg, out |-> NoSearch] :
                        scores \in [1..Len(corpus.all_ids) -> RagSims], arg \in RagArgs}

ApplyRag ==
    /\ probe.fn = "rag_search" /\ ~probe.done
    /\ \E top \in (IF probe.arg.top_k > Len(probe.scores) THEN {<<>>}
                    ELSE TopkIndices(probe.scores, probe.arg.top_k)) :
          probe' = [probe EXCEPT !.done = TRUE,
                       !.out = rag_search(probe.corpus, probe.scores, probe.arg.top_k, top)]
    /\ UNCHANGED <<conversation_memory, embed_model_loaded, uuid_count, asks, requests,
                   answered, cleared_since>>

SpecRag == InitRag /\ [][ApplyRag]_vars

\* Facts and fragments handed to build_prompt
PromptFacts ==
    {[source |-> CHUNK_PREFIX \o F1, relation |-> rel, target |-> <<"Topic::", "DLG_Cap">>,
      label |-> label] : rel \in {"pertainsTo", "definedIn"}, label \in {"DLG Cap", "FLDG"}}
PromptChunks == {<<>>, <<[id |-> F1, text |-> id2text[F1]], [id |-> F3, text |-> <<>>]>>}

NoPromptBody == [question |-> <<>>, kg_info |-> <<>>, excerpts |-> <<>>]

\* build_prompt called twice on the same input: in one run of the process,
\* or in two runs
InitPrompt ==
    /\ conversation_memory = <<>>
    /\ embed_model_loaded = FALSE
    /\ uuid_count = 0
    /\ asks = 0
    /\ requests = [r \in Requests |-> IdleRequest]
    /\ answered = <<>>
    /\ cleared_since = {}
    /\ probe \in {[fn |-> "build_prompt", done |-> FALSE, question |-> Q_dlg_cap,
                   chunks |-> chunks, kg_facts |-> kg_facts, same_run |-> same_run,
                   out |-> <<NoPromptBody, NoPromptBody>>] :
                     chunks \in PromptChunks, kg_facts \in SeqsUpTo(PromptFacts, MaxFacts),
                     same_run \in BOOLEAN}

ApplyPrompt ==
    /\ probe.fn = "build_prompt" /\ ~probe.done
    /\ \E first, second \in Orderings(FactLabels(probe.kg_facts)) :
          /\ probe.same_run => first = second
          /\ probe' = [probe EXCEPT !.done = TRUE,
                !.out = <<build_prompt(probe.question, probe.chunks, probe.kg_facts, first),
                          build_prompt(probe.question, probe.chunks, probe.kg_facts, second)>>]
    /\ UNCHANGED <<conversation_memory, embed_model_loaded, uuid_count, asks, requests,
                   answered, cleared_since>>

SpecPrompt == InitPrompt /\ [][ApplyPrompt]_vars

\* ================================================================== claims

Done(r) == requests[r].pc = "done"
ProbeDone(fn) == probe.fn = fn /\ probe.done

\* C1: for every question and every behaviour of the language model,
\* llm_intent does not raise and returns an intent that is chit_chat or
\* rbi_query, with a topic that is not None whenever the intent is rbi_query.
C1_IntentWellFormed ==
    ProbeDone("llm_intent") =>
        /\ ~probe.out.raised
        /\ probe.out.intent \in {"chit_chat", "rbi_query"}
        /\ (probe.out.intent = "rbi_query" => probe.out.topic # NoneAtom)

\* C2: a request is never aborted by a failure of the graph database during
\* hybrid_retrieve (the topic lookup or the facts lookup): the failure counts
\* as no graph evidence.
C2_GraphFailureTolerated ==
    \A r \in Requests : requests[r].failed_at \notin {"topic", "facts"}

\* C3: a failure of the language model during intent classification or
\* follow-up rewriting never reaches the caller: a request with a non-empty
\* question ends in an error only by a failure of the final generation.
C3_EarlyLlmFailureHidden ==
    \A r \in Requests : requests[r].failed_at \notin {"intent", "rewrite"}

\* Every conversation identifier a behaviour can hold
KnownCids == {ClientCid(1), ClientCid(2)} \cup {Uuid4(n) : n \in 1..(MaxAsks + 1)}
\* No request is being handled
Quiescent == \A r \in Requests : ~InFlight(r)
\* The latest answer returned on an identifier ("" when none was)
LatestAnswer(cid) == IF cid \in DOMAIN answered THEN answered[cid] ELSE <<>>

\* C4: a request with the clear flag set behaves as a request on a
\* never-used identifier, whatever the record held before: the previous
\* answer it reads is empty, it is no follow-up and its question is not
\* rewritten, the prompt it sends carries no previous answer, and after its
\* answer the record holds that answer.
C4_ClearIsFresh ==
    \A r \in Requests :
       LET rec == requests[r] IN
       (rec.clear /\ rec.pc \notin {"idle", "clear", "read"} /\ rec.response.status # 400) =>
          /\ rec.prev = <<>>
          /\ ~rec.followup /\ rec.llm_calls.rewrite = 0 /\ rec.q = Strip(rec.question)
          /\ rec.prompt.previous_answer \in {<<>>, NO_PREVIOUS}
          /\ (rec.response.status = 200 =>
                /\ rec.cid \in DOMAIN conversation_memory
                /\ conversation_memory[rec.cid] = rec.response.body.answer)

\* C4 witness: an answered request that cleared a non-empty record and whose
\* question would have been a follow-up of it.
C4_Witness ==
    \E r \in Requests :
       /\ requests[r].clear /\ requests[r].popped \notin {NoneText, <<>>}
       /\ requests[r].question = Q_explain_again
       /\ requests[r].response.status = 200
       /\ requests[r].prompt.previous_answer = NO_PREVIOUS

\* Every answered request has written the record of its own identifier once
WroteOwnRecordOnce ==
    \A r \in Requests :
       /\ requests[r].response.status = 200 => requests[r].writes = <<requests[r].cid>>
       /\ Done(r) /\ requests[r].response.status # 200 => requests[r].writes = <<>>

\* C5 as stated: after requests handled one after another, the record of
\* each identifier is the answer of the latest answered request on it, the
\* empty text for an identifier never answered, and each answered request
\* wrote its own record once.
C5_RecordIsLatestAnswer ==
    Quiescent =>
       /\ \A cid \in KnownCids : get_last_reply(conversation_memory, cid) = LatestAnswer(cid)
       /\ WroteOwnRecordOnce

\* C5 amended: the same, except that the record of an identifier is empty
\* when a request carrying the clear flag was accepted on it after its latest
\* answer and did not itself end in an answer.
C5_RecordIsLatestAnswerUnlessCleared ==
    Quiescent =>
       /\ \A cid \in KnownCids :
             get_last_reply(conversation_memory, cid) =
                IF cid \in cleared_since THEN <<>> ELSE LatestAnswer(cid)
       /\ \A cid \in KnownCids :
             cid \in DOMAIN conversation_memory <=> (cid \in DOMAIN answered /\ cid \notin cleared_since)
       /\ WroteOwnRecordOnce

\* C5 witness: three requests were handled; one identifier's answer was
\* cleared by a request that failed, another identifier holds its answer.
C5_Witness ==
    /\ Quiescent /\ asks = 3
    /\ \E a \in cleared_since : LatestAnswer(a) # <<>>
    /\ \E b \in DOMAIN conversation_memory : conversation_memory[b] # <<>>

\* The record of an identifier: <<>> when the memory has none
Entry(mem, cid) == IF cid \in DOMAIN mem THEN <<mem[cid]>> ELSE <<>>

\* A step changes only the record of the identifier of the request taking it
OwnRecordOnly ==
    \A cid \in KnownCids :
       Entry(conversation_memory', cid) # Entry(conversation_memory, cid) =>
          \E r \in Requests : requests'[r] # requests[r] /\ requests'[r].cid = cid

\* The previous answer a request reads is the record of its own identifier
ReadsOwnRecord ==
    \A r \in Requests :
       /\ requests[r].reads \subseteq {requests[r].cid}
       /\ (requests[r].pc = "read" /\ requests'[r].pc = "intent") =>
             requests'[r].prev = get_last_reply(conversation_memory, requests[r].cid)

\* The answers the two requests returned on an identifier
AnswersOn(cid) ==
    {requests[r].response.body.answer : r \in
        {x \in Requests : requests[x].response.status = 200 /\ requests[x].cid = cid}}

\* Two requests on one identifier were handled at the same time and are over
Raced(cid) ==
    \A r \in Requests :
       Done(r) /\ requests[r].overlapped /\ requests[r].cid = cid

\* C6 as stated: under every interleaving a request touches only the record
\* of its own identifier, and after two requests raced on one identifier, of
\* which one at least answered, the record is the answer of the request that
\* wrote last.
C6_LastWriteWins ==
    \A cid \in KnownCids : (Raced(cid) /\ AnswersOn(cid) # {}) =>
       /\ cid \in DOMAIN conversation_memory
       /\ conversation_memory[cid] = answered[cid]
       /\ conversation_memory[cid] \in AnswersOn(cid)

\* C6 amended: the same, except that the record is absent when a request
\* carrying the clear flag cleared the identifier after the last write and
\* then failed.
C6_FinalRecord ==
    \A cid \in KnownCids : (Raced(cid) /\ AnswersOn(cid) # {}) =>
       IF cid \in cleared_since THEN cid \notin DOMAIN conversation_memory
       ELSE /\ cid \in DOMAIN conversation_memory
            /\ conversation_memory[cid] = answered[cid]
            /\ conversation_memory[cid] \in AnswersOn(cid)

C6_LastWriteWinsUnlessCleared ==
    [](C6_FinalRecord) /\ [][OwnRecordOnly /\ ReadsOwnRecord]_vars

\* C6 witness: two requests on one identifier both read the same previous
\* answer, both answered differently, and the record is the later answer.
C6_Witness ==
    /\ Raced(ClientCid(1))
    /\ \A r \in Requests :
          requests[r].response.status = 200 /\ requests[r].prev = <<"Z">>
    /\ requests["r1"].response.body.answer # requests["r2"].response.body.answer
    /\ conversation_memory[ClientCid(1)] = answered[ClientCid(1)]

\* C7: a request whose retrieval yields no fragment and no fact ends with the
\* fixed not-found answer, empty chunks_used and kg_facts, no generation
\* call, and the record of its identifier set to that answer.
C7_NotFoundAnswer ==
    \A r \in Requests :
       LET rec == requests[r] IN
       (Done(r) /\ rec.retrieved /\ rec.chunks = <<>> /\ rec.kg_facts = <<>>) =>
          /\ rec.response = Http200(rec.cid, NOT_FOUND_REPLY, <<>>, <<>>)
          /\ rec.llm_calls.generate = 0
          /\ get_last_reply(conversation_memory, rec.cid) = NOT_FOUND_REPLY

\* C7 witness: a request ended there, over a record that held another answer
C7_Witness ==
    \E r \in Requests :
       /\ Done(r) /\ requests[r].retrieved
       /\ requests[r].chunks = <<>> /\ requests[r].kg_facts = <<>>
       /\ requests[r].prev \notin {<<>>, NOT_FOUND_REPLY}

\* The language model failed a call: it raised, or its message has no content
LlmFailed(resp) == resp.kind = "raise" \/ resp.content = NoneText

\* C8: when the call of the final answer generation fails, the request ends
\* in a service error, with no answer object and no record written.
C8_GenerationFailureSurfaces ==
    \A r \in Requests :
       LET rec == requests[r] IN
       (rec.llm_calls.generate = 1 /\ LlmFailed(rec.generated)) =>
          /\ Done(r)
          /\ rec.response = Http500
          /\ rec.writes = <<>>

\* C8 witness: the generation call over retrieved evidence failed
C8_Witness ==
    \E r \in Requests :
       /\ requests[r].retrieved /\ requests[r].chunks # <<>>
       /\ requests[r].llm_calls.generate = 1 /\ LlmFailed(requests[r].generated)

\* The number of whitespace-separated tokens of a text
TokenCount(q) ==
    Cardinality({i \in 1..Len(q) : q[i] \notin WS /\ (i = 1 \/ q[i - 1] \in WS)})

\* The lower-cased, trimmed question contains a follow-up phrase
HasFollowupPhrase(q) ==
    LET ql == Strip(Lower(q)) IN
    \E k \in 1..Len(FOLLOWUP_PATTERNS) : \E i \in 1..Len(ql) :
       LET p == FOLLOWUP_PATTERNS[k] IN
       i + Len(p) - 1 <= Len(ql) /\ SubSeq(ql, i, i + Len(p) - 1) = p

\* C9: is_followup(prev, q) is true exactly when prev is not empty and
\* either the lower-cased, trimmed q contains a follow-up phrase or q has at
\* most 4 tokens and the similarity of prev and q is above 0.55; a question
\* of more than 4 tokens without a phrase is no follow-up whatever the
\* similarity, and with an empty prev no similarity is computed.
C9_FollowupRule ==
    ProbeDone("is_followup") =>
       /\ probe.out.result <=>
             /\ probe.prev # <<>>
             /\ \/ HasFollowupPhrase(probe.q)
                \/ TokenCount(probe.q) <= 4 /\ probe.sim > 55
       /\ (TokenCount(probe.q) > 4 /\ ~HasFollowupPhrase(probe.q)) => ~probe.out.result
       /\ probe.prev = <<>> => ~probe.out.result /\ ~probe.out.encoded

\* C9 witness: a question of 5 tokens without a phrase, a non-empty previous
\* answer and the similarity 1.0, found to be no follow-up.
C9_Witness ==
    /\ ProbeDone("is_followup")
    /\ probe.prev # <<>> /\ probe.sim = 100
    /\ TokenCount(probe.q) = 5 /\ ~HasFollowupPhrase(probe.q)
    /\ ~probe.out.result

\* The question matches a greeting pattern: lower-cased and trimmed, it is a
\* greeting token or starts with a greeting token followed by a space
MatchesGreeting(q) ==
    LET ql == Strip(Lower(q)) IN
    ql \in GREETINGS \/ \E g \in GREETINGS : StartsWith(ql, g \o Sp)

\* C10: for every question matching a greeting pattern, llm_intent returns
\* chit_chat with no topic and sends nothing to the language model, whether
\* or not the question holds a domain keyword.
C10_GreetingFirst ==
    (ProbeDone("llm_intent") /\ MatchesGreeting(probe.q)) =>
       /\ ~probe.out.raised
       /\ probe.out.intent = "chit_chat"
       /\ probe.out.topic = NoneAtom
       /\ probe.out.llm_calls = 0

\* p occurs in s
Occurs(p, s) ==
    \E i \in 1..Len(s) : i + Len(p) - 1 <= Len(s) /\ SubSeq(s, i, i + Len(p) - 1) = p

\* The question is answered by the greeting rule of llm_intent
TakenAsGreeting(q) ==
    LET ql == Strip(Lower(q)) IN
    ql \in GREETINGS \/ \E i \in 1..Len(GREETING_PREFIXES) : StartsWith(ql, GREETING_PREFIXES[i])

\* The question holds a domain keyword, whatever its case
HasDomainKeyword(q) ==
    \E k \in 1..Len(DOMAIN_KEYWORDS) : Occurs(DOMAIN_KEYWORDS[k], Lower(q))

\* Topic i of the keyword table has a keyword in the question
TopicHit(i, q) ==
    \E k \in 1..Len(TOPIC_KEYWORDS[i].kws) : Occurs(TOPIC_KEYWORDS[i].kws[k], Lower(q))

\* The topic of the keyword table for a question: the first topic of the
\* enumeration with a keyword in the question, else the default topic
KeywordTopic(q) ==
    IF \E i \in 1..Len(TOPIC_KEYWORDS) : TopicHit(i, q)
    THEN TOPIC_KEYWORDS[CHOOSE i \in 1..Len(TOPIC_KEYWORDS) :
                          TopicHit(i, q) /\ \A j \in 1..(i - 1) : ~TopicHit(j, q)].topic
    ELSE "DLG_Cap"

\* C11 as stated: for every question holding a domain keyword, llm_intent
\* returns rbi_query with the topic of the keyword table and sends nothing
\* to the language model.
C11_KeywordRule ==
    (ProbeDone("llm_intent") /\ HasDomainKeyword(probe.q)) =>
       /\ ~probe.out.raised
       /\ probe.out.intent = "rbi_query"
       /\ probe.out.topic = KeywordTopic(probe.q)
       /\ probe.out.llm_calls = 0

\* C11 amended: the same for every question holding a domain keyword that
\* the greeting rule, which comes first, does not take.
C11_KeywordRuleAfterGreeting ==
    (ProbeDone("llm_intent") /\ HasDomainKeyword(probe.q) /\ ~TakenAsGreeting(probe.q)) =>
       /\ ~probe.out.raised
       /\ probe.out.intent = "rbi_query"
       /\ probe.out.topic = KeywordTopic(probe.q)
       /\ probe.out.llm_calls = 0

\* C11 witness: a question with keywords of two topics, the language model
\* being down: the topic enumerated first is returned.
C11_Witness ==
    /\ ProbeDone("llm_intent") /\ probe.resp = LlmRaise
    /\ Occurs(W_ltv, Lower(probe.q)) /\ Occurs(W_dlg, Lower(probe.q))
    /\ probe.q # Lower(probe.q)
    /\ probe.out.intent = "rbi_query" /\ probe.out.topic = "DLG_Cap"
    /\ probe.out.llm_calls = 0

\* The classification by the language model failed: the call raised, the
\* response holds no {...}, or what it holds is not JSON
ClassificationFailed(resp) ==
    \/ resp.kind = "raise"
    \/ resp.content = NoneText
    \/ ReSearchBraces(Strip(resp.content)) = <<>>
    \/ ~JsonLoads(ReSearchBraces(Strip(resp.content))).ok

\* The response is a JSON object without the field intent or the field topic
OmitsField(resp) ==
    /\ ~ClassificationFailed(resp)
    /\ LET data == JsonLoads(ReSearchBraces(Strip(resp.content))).data
       IN  "intent" \notin DOMAIN data \/ "topic" \notin DOMAIN data

\* C12: for a question that neither the greeting rule nor the keyword rule
\* takes, when the classification fails or its JSON object omits intent or
\* topic, llm_intent returns rbi_query with the topic of the keyword table.
C12_FallbackOnFailure ==
    (/\ ProbeDone("llm_intent")
     /\ ~TakenAsGreeting(probe.q) /\ ~HasDomainKeyword(probe.q)
     /\ ClassificationFailed(probe.resp) \/ OmitsField(probe.resp)) =>
       /\ ~probe.out.raised
       /\ probe.out.intent = "rbi_query"
       /\ probe.out.topic = KeywordTopic(probe.q)

\* The question holds both "gold" and "ltv"
GoldAndLtv(q) == Occurs(W_gold, Lower(q)) /\ Occurs(W_ltv, Lower(q))

\* C13 as stated: every question holding "gold" and "ltv" gets the topic
\* Gold_Loan_LTV by keywords alone, whatever the language model does.
C13_GoldLtvTopic ==
    (ProbeDone("llm_intent") /\ GoldAndLtv(probe.q)) =>
       /\ probe.out.topic = "Gold_Loan_LTV"
       /\ probe.out.llm_calls = 0

\* C13 amended: the same for every such question that the greeting rule
\* does not take and that holds no keyword of a topic enumerated before
\* Gold_Loan_LTV ("dlg", "fldg", "first loss").
C13_GoldLtvTopicUnlessEarlier ==
    (/\ ProbeDone("llm_intent") /\ GoldAndLtv(probe.q)
     /\ ~TakenAsGreeting(probe.q)
     /\ ~TopicHit(1, probe.q)) =>
       /\ ~probe.out.raised
       /\ probe.out.intent = "rbi_query"
       /\ probe.out.topic = "Gold_Loan_LTV"
       /\ probe.out.llm_calls = 0

\* C13 witness: such a question of three words, the language model being down
C13_Witness ==
    /\ ProbeDone("llm_intent") /\ GoldAndLtv(probe.q) /\ probe.resp = LlmRaise
    /\ Occurs(W_weather, probe.q)
    /\ probe.out.topic = "Gold_Loan_LTV" /\ probe.out.llm_calls = 0

\* C14: when the topic lookup and the vector search both return nothing,
\* hybrid_retrieve returns an empty fragment list and an empty fact list and
\* does not raise, whatever the graph database would do if queried, and no
\* query for facts is sent to it.
C14_EmptyEvidence ==
    (/\ ProbeDone("hybrid_retrieve")
     /\ probe.kg = CallOk(<<>>) /\ probe.rag = CallOk(<<>>)) =>
       /\ ~probe.out.raised
       /\ probe.out.chunks = <<>>
       /\ probe.out.kg_facts = <<>>
       /\ ~probe.out.facts_queried

\* C14 witness: that case, with a graph database that would fail a query
C14_Witness ==
    /\ ProbeDone("hybrid_retrieve")
    /\ probe.kg = CallOk(<<>>) /\ probe.rag = CallOk(<<>>)
    /\ probe.graph = CallRaise
    /\ probe.out.stage = "done"

\* A node identifier without its kind prefix
Unprefixed(nid) == IF nid[1] \in {"Chunk::", "Clause::"} THEN Tail(nid) ELSE nid

\* The fragment identifiers the two sources name: the chunk and clause nodes
\* of the topic lookup, prefix stripped, and the results of the vector search
SourceIds(nodes, rag_results) ==
    {Unprefixed(nodes[i]) : i \in {k \in 1..Len(nodes) : nodes[k][1] \in {"Chunk::", "Clause::"}}}
       \cup {rag_results[i].id : i \in 1..Len(rag_results)}

\* C16: the fragments hybrid_retrieve returns are those the two sources
\* name, each identifier once, each with its text of the fragment store, or
\* with the empty text when the store does not know the identifier.
C16_CandidateSet ==
    (ProbeDone("hybrid_retrieve") /\ ~probe.out.raised) =>
       LET chunks == probe.out.chunks IN
       /\ {chunks[i].id : i \in 1..Len(chunks)} = SourceIds(probe.kg.value, probe.rag.value)
       /\ \A i, j \in 1..Len(chunks) : chunks[i].id = chunks[j].id => i = j
       /\ \A i \in 1..Len(chunks) :
             chunks[i].text = IF chunks[i].id \in DOMAIN id2text
                              THEN id2text[chunks[i].id] ELSE <<>>

\* C16 witness: a fragment named by a chunk node, by a clause node and by
\* the vector search, next to a fragment the store does not know
C16_Witness ==
    /\ ProbeDone("hybrid_retrieve") /\ ~probe.out.raised
    /\ probe.kg.value = <<CLAUSE_PREFIX \o F1, CHUNK_PREFIX \o F3>>
    /\ probe.rag.value = <<[id |-> F1, text |-> id2text[F1]], [id |-> F1, text |-> id2text[F1]]>>
    /\ Len(probe.out.chunks) = 2
    /\ \E i \in 1..2 : probe.out.chunks[i] = [id |-> F3, text |-> <<>>]

\* The smaller of two numbers
Least(a, b) == IF a < b THEN a ELSE b

\* C17: for every corpus, also one of fewer than k fragments, rag_search
\* returns without error the at most k fragments most similar to the query
\* as (id, text) pairs, in descending similarity, fragments of equal
\* similarity in corpus order; k is 5 when not given.
C17_RankedSearch ==
    ProbeDone("rag_search") =>
       LET out == probe.out
           k == IF probe.arg.given THEN probe.arg.top_k ELSE 5
           n == Len(probe.corpus.all_ids)
       IN  /\ ~out.raised
           /\ Len(out.results) = Least(k, n)
           /\ \A a \in 1..Len(out.results) :
                 /\ out.results[a].id = probe.corpus.all_ids[out.indices[a]]
                 /\ out.results[a].text = probe.corpus.id2text[out.results[a].id]
           /\ \A a, b \in 1..Len(out.indices) : a < b =>
                 \/ probe.scores[out.indices[a]] > probe.scores[out.indices[b]]
                 \/ /\ probe.scores[out.indices[a]] = probe.scores[out.indices[b]]
                    /\ out.indices[a] < out.indices[b]
           /\ \A i \in 1..n : (\A a \in 1..Len(out.indices) : out.indices[a] # i) =>
                 \A a \in 1..Len(out.indices) : probe.scores[i] <= probe.scores[out.indices[a]]

\* C15: build_prompt gives the same output for the same question,
\* fragments and facts, the order of the labels of each relation included,
\* at every call and in every run of the process.
C15_Deterministic ==
    ProbeDone("build_prompt") => probe.out[1] = probe.out[2]

====
